---- MODULE Spec2Model ----
(***************************************************************************)
(* Model of the HTTP client-management middleware of the iggy server       *)
(* (core/server/src/http/client_management.rs, manage_clients).            *)
(*                                                                         *)
(* One shard runs a single-threaded cooperative scheduler.  Every inbound  *)
(* HTTP request is one invocation of manage_clients, i.e. one future that  *)
(* is polled by the shard's runtime and suspends at its two awaits:        *)
(*   line 45  next.run(request).await                                      *)
(*   line 50  compio::runtime::spawn(..).await                             *)
(* A step of the model is what one poll does between two suspensions.      *)
(* The future may also be dropped at either suspension (the connection     *)
(* went away): that is the Cancel step.                                    *)
(*                                                                         *)
(* The shard's add_client / delete_client are not part of the file; they   *)
(* are modelled from the design document (Session Registry, register and   *)
(* remove).                                                                *)
(***************************************************************************)
EXTENDS Naturals, Integers, FiniteSets, Sequences, TLC

\* ---------------------------------------------------------------- bounds
\* Number of requests (invocations of manage_clients) on the shard.
NumRequests == 2
\* Number of distinct peer addresses requests may arrive from.
NumAddrs == 2
Requests == 1..NumRequests
Addrs == 1..NumAddrs

\* Status classes of the Response the downstream handler chain produces.
Statuses == {"success", "failure"}

NoId == 0
NoResponse == [request |-> 0, status |-> "none"]
NoResult == [kind |-> "none", response |-> NoResponse]

VARIABLES
    registry,     \* the shard's session registry: a set of ClientSession
    next_id,      \* the registry's identifier allocator
    pc,           \* where each invocation of manage_clients stands
    addr,         \* the peer address of each request (ConnectInfo)
    client_id,    \* the local client_id of each invocation (line 41)
    response,     \* the local response of each invocation (line 45)
    task,         \* the task spawned at line 47, per invocation
    result,       \* what the invocation returned to its caller (line 55)
    trace,        \* per request, the lifecycle events so far, in order
    anomaly_log,  \* requests whose delete_client found the id absent
    reg0          \* the registry before any request began

vars == <<registry, next_id, pc, addr, client_id, response, task, result,
          trace, anomaly_log, reg0>>

\* ------------------------------------------------------- session registry
Ids(reg) == {s.client_id : s \in reg}

\* Session Registry, register: a fresh identifier, one more entry.
add_client_reuse(nid, a, transport) ==
    [client_id |-> 1, address |-> a, transport |-> transport]
add_client(nid, a, transport) ==
    [client_id |-> nid, address |-> a, transport |-> transport]

\* Session Registry, remove: deletes the entry if present, else nothing.
delete_client(reg, id) ==
    {s \in reg : s.client_id # id}

\* TransportProtocol::Http, the tag manage_clients registers under.
Http == "Http"

\* A session of another transport that the shard may already serve when the
\* requests arrive.
TcpSession == [client_id |-> 1, address |-> 1, transport |-> "Tcp"]

\* ------------------------------------------------------------ the wrapper
\* The id the spawned task deletes: the client_id moved into the async block.
CapturedIdLatest(r) == next_id - 1
CapturedId(r) == client_id[r]

\* The join at line 50 resolves once the spawned task has finished, whether
\* it ran to completion or failed (the handle then yields an Err).
JoinReadyDetached(r) == TRUE
JoinReady(r) == task[r] \in {"done", "failed"}

\* Line 55: the handler's response, wrapped in Ok; the join's outcome and
\* delete_client's are discarded (let _ = ...).
Ok(resp) == [kind |-> "Ok", response |-> resp]
Err(code) == [kind |-> "Err", response |-> [request |-> 0, status |-> code]]
WrapResultMapFailure(r) ==
    IF response[r].status = "failure"
    THEN Err("internal_server_error") ELSE Ok(response[r])
WrapResultSurfaceJoin(r) ==
    IF r \in anomaly_log
    THEN Err("internal_server_error") ELSE Ok(response[r])
WrapResultPropagateJoin(r) ==
    IF task[r] = "failed"
    THEN Err("internal_server_error") ELSE Ok(response[r])
WrapResult(r) == Ok(response[r])

\* Requests are numbered in their order of arrival, and peer addresses in
\* the order in which the shard first sees them: both are opaque to the
\* wrapper, so every other numbering is a renaming of one of these.
Arrived(r) == IF r = 0 THEN TRUE ELSE pc[r] # "idle"
Max(S) == CHOOSE x \in S : \A y \in S : y <= x
SeenAddrs == {s.address : s \in reg0} \cup {addr[r] : r \in Requests}
NextAddrs == {a \in Addrs : a <= Max(SeenAddrs \cup {0}) + 1}

Init ==
    /\ \E pre \in SUBSET {TcpSession} :
          /\ registry = pre
          /\ reg0 = pre
          /\ next_id = Cardinality(pre) + 1
    /\ pc = [r \in Requests |-> "idle"]
    /\ addr = [r \in Requests |-> 0]
    /\ client_id = [r \in Requests |-> NoId]
    /\ response = [r \in Requests |-> NoResponse]
    /\ task = [r \in Requests |-> "none"]
    /\ result = [r \in Requests |-> NoResult]
    /\ trace = [r \in Requests |-> <<>>]
    /\ anomaly_log = {}

\* Register with the insertion left for later: the wrapper holds a
\* client_id and runs the handler while the registry has no entry yet.
RegisterDeferredInsert(r, a) ==
    /\ pc[r] = "idle"
    /\ Arrived(r - 1)
    /\ a \in NextAddrs
    /\ client_id' = [client_id EXCEPT ![r] = next_id]
    /\ next_id' = next_id + 1
    /\ addr' = [addr EXCEPT ![r] = a]
    /\ pc' = [pc EXCEPT ![r] = "handler"]
    /\ trace' = [trace EXCEPT ![r] = <<"registered", "handler_started">>]
    /\ UNCHANGED <<registry, response, task, result, anomaly_log, reg0>>

\* Register calling add_client twice for one request.
RegisterTwice(r, a) ==
    /\ pc[r] = "idle"
    /\ Arrived(r - 1)
    /\ a \in NextAddrs
    /\ LET first == add_client(next_id, a, Http)
           session == add_client(next_id + 1, a, Http) IN
          /\ registry' = registry \cup {first, session}
          /\ client_id' = [client_id EXCEPT ![r] = session.client_id]
    /\ next_id' = next_id + 2
    /\ addr' = [addr EXCEPT ![r] = a]
    /\ pc' = [pc EXCEPT ![r] = "handler"]
    /\ trace' = [trace EXCEPT ![r] = <<"registered", "handler_started">>]
    /\ UNCHANGED <<response, task, result, anomaly_log, reg0>>

\* Lines 36-45, first poll: add_client, keep its client_id, start next.run
\* and suspend on it.
Register(r, a) ==
    /\ pc[r] = "idle"
    /\ Arrived(r - 1)
    /\ a \in NextAddrs
    /\ LET session == add_client(next_id, a, Http) IN
          /\ registry' = registry \cup {session}
          /\ client_id' = [client_id EXCEPT ![r] = session.client_id]
    /\ next_id' = next_id + 1
    /\ addr' = [addr EXCEPT ![r] = a]
    /\ pc' = [pc EXCEPT ![r] = "handler"]
    /\ trace' = [trace EXCEPT ![r] = <<"registered", "handler_started">>]
    /\ UNCHANGED <<response, task, result, anomaly_log, reg0>>

\* Lines 45-50: next.run resolves with the handler's response; the wrapper
\* spawns the deregistration task and suspends on its join handle.
HandlerComplete(r, status) ==
    /\ pc[r] = "handler"
    /\ response' = [response EXCEPT ![r] = [request |-> r, status |-> status]]
    /\ task' = [task EXCEPT ![r] = "spawned"]
    /\ pc' = [pc EXCEPT ![r] = "joining"]
    /\ trace' = [trace EXCEPT ![r] = Append(@, "handler_completed")]
    /\ UNCHANGED <<registry, next_id, addr, client_id, result, anomaly_log, reg0>>

\* Lines 47-49: the shard's scheduler runs the spawned task, which calls
\* delete_client with the captured client_id.
RunDeleteTask(r) ==
    /\ task[r] = "spawned"
    /\ registry' = delete_client(registry, CapturedId(r))
    /\ anomaly_log' = IF CapturedId(r) \in Ids(registry)
                      THEN anomaly_log ELSE anomaly_log \cup {r}
    /\ task' = [task EXCEPT ![r] = "done"]
    /\ trace' = [trace EXCEPT ![r] = Append(@, "deregistered")]
    /\ UNCHANGED <<next_id, pc, addr, client_id, response, result, reg0>>

\* Lines 50-55: the join resolves; the wrapper returns Ok(response).
Return(r) ==
    /\ pc[r] = "joining"
    /\ JoinReady(r)
    /\ result' = [result EXCEPT ![r] = WrapResult(r)]
    /\ pc' = [pc EXCEPT ![r] = "returned"]
    /\ trace' = [trace EXCEPT ![r] = Append(@, "returned")]
    /\ UNCHANGED <<registry, next_id, addr, client_id, response, task,
                   anomaly_log, reg0>>

\* The request is cancelled while the wrapper is suspended on the handler
\* (line 45): the future is dropped, nothing after the await runs.
CancelInHandler(r) ==
    /\ pc[r] = "handler"
    /\ pc' = [pc EXCEPT ![r] = "cancelled"]
    /\ UNCHANGED <<registry, next_id, addr, client_id, response, task, result,
                   trace, anomaly_log, reg0>>

\* The request is cancelled while the wrapper is suspended on the join
\* handle (line 50).  Dropping the handle either cancels a task that has not
\* run yet or leaves it to run detached, depending on the runtime.
CancelInJoin(r, keep) ==
    /\ pc[r] = "joining"
    /\ pc' = [pc EXCEPT ![r] = "cancelled"]
    /\ task' = [task EXCEPT ![r] =
                   IF task[r] = "spawned" /\ ~keep THEN "cancelled" ELSE @]
    /\ UNCHANGED <<registry, next_id, addr, client_id, response, result,
                   trace, anomaly_log, reg0>>

Next ==
    \/ \E r \in Requests, a \in Addrs : Register(r, a)
    \/ \E r \in Requests, s \in Statuses : HandlerComplete(r, s)
    \/ \E r \in Requests : RunDeleteTask(r)
    \/ \E r \in Requests : Return(r)
    \/ \E r \in Requests : CancelInHandler(r)
    \/ \E r \in Requests, keep \in BOOLEAN : CancelInJoin(r, keep)

Spec == Init /\ [][Next]_vars

\* The shard's scheduler is fair to what is ready to run: a spawned task is
\* run, and a wrapper whose join has resolved is polled again.  Nothing
\* makes a handler chain complete or a connection go away.
Fairness ==
    \A r \in Requests : WF_vars(RunDeleteTask(r)) /\ WF_vars(Return(r))
FairSpec == Spec /\ Fairness

\* A lifecycle bug upstream of the wrapper: some other part of the shard
\* removes the session of a request that has not deregistered it yet, so
\* that the request's own delete_client finds the identifier absent.
ForeignRemove(r) ==
    /\ pc[r] \in {"handler", "joining"}
    /\ task[r] # "done"
    /\ client_id[r] \in Ids(registry)
    /\ registry' = delete_client(registry, client_id[r])
    /\ UNCHANGED <<next_id, pc, addr, client_id, response, task, result,
                   trace, anomaly_log, reg0>>

\* The spawned task fails (delete_client panics) before it has removed
\* anything: the runtime catches it and the join handle yields an Err.
TaskFails(r) ==
    /\ task[r] = "spawned"
    /\ task' = [task EXCEPT ![r] = "failed"]
    /\ UNCHANGED <<registry, next_id, pc, addr, client_id, response, result,
                   trace, anomaly_log, reg0>>

NextAnomaly ==
    \/ Next
    \/ \E r \in Requests : ForeignRemove(r)
    \/ \E r \in Requests : TaskFails(r)

\* The wrapper on a shard where such removals happen.
SpecAnomaly == Init /\ [][NextAnomaly]_vars

\* ------------------------------------------------------------- properties
Registered(r) == client_id[r] # NoId
Deregistered(r) == \E i \in DOMAIN trace[r] : trace[r][i] = "deregistered"
\* A request is over once its wrapper has returned or been dropped and no
\* task of it is still to run.
FullyCompleted(r) == pc[r] \in {"returned", "cancelled"} /\ task[r] # "spawned"
Quiescent == \A r \in Requests : pc[r] = "idle" \/ FullyCompleted(r)
Present(r) == client_id[r] \in Ids(registry)

\* C1 (balanced lifecycle): whenever every request that began has fully
\* completed, by handler success, handler failure or cancellation, the
\* registry has the size it had before the requests began.
C1_BalancedLifecycle ==
    Quiescent => Cardinality(registry) = Cardinality(reg0)

\* C2 (return barrier): once manage_clients has returned to its caller, the
\* client_id it got from add_client is absent from the registry.
C2_ReturnBarrier ==
    \A r \in Requests : pc[r] = "returned" => ~Present(r)
C2_Witness ==
    \E r1, r2 \in Requests :
        /\ pc[r1] = "returned" /\ response[r1].status = "failure"
        /\ pc[r2] = "handler"

\* C3 (strict per-request ordering): the lifecycle events of each request
\* occur in the order registered, handler started, handler completed,
\* deregistered, returned, whatever the other requests do in between.
Canonical == <<"registered", "handler_started", "handler_completed",
               "deregistered", "returned">>
IsPrefix(s, t) == Len(s) <= Len(t) /\ \A i \in 1..Len(s) : s[i] = t[i]
C3_StrictOrdering ==
    \A r \in Requests : IsPrefix(trace[r], Canonical)
C3_Witness ==
    \E r1, r2 \in Requests :
        /\ r1 # r2
        /\ trace[r1] = Canonical /\ trace[r2] = Canonical
        /\ client_id[r1] > client_id[r2]

\* C4 (visibility): while a request's handler chain runs, the session that
\* add_client created for it is in the registry.
C4_Visibility ==
    \A r \in Requests :
        pc[r] = "handler" =>
            [client_id |-> client_id[r], address |-> addr[r],
             transport |-> Http] \in registry
C4_Witness ==
    \E r1, r2 \in Requests :
        /\ pc[r1] = "handler"
        /\ Registered(r2) /\ Deregistered(r2)
        /\ client_id[r2] < client_id[r1]

\* C5 (uniqueness): no two sessions in the registry share a client_id, and
\* no two requests that hold a not yet deregistered id hold the same one.
Holding(r) == Registered(r) /\ ~Deregistered(r)
C5_Uniqueness ==
    /\ \A s, t \in registry : s.client_id = t.client_id => s = t
    /\ \A r1, r2 \in Requests :
          (r1 # r2 /\ Holding(r1) /\ Holding(r2)) => client_id[r1] # client_id[r2]
C5_Witness ==
    /\ \A r \in Requests : Holding(r)
    /\ \A r1, r2 \in Requests : addr[r1] = addr[r2]
    /\ reg0 # {}

\* C6 (exactly-once registration): when all NumRequests requests, from
\* pairwise distinct addresses, have registered and none has deregistered,
\* their ids are pairwise distinct and the registry has grown by NumRequests.
AllRegisteredNoneDeregistered == \A r \in Requests : Holding(r)
DistinctAddrs == \A r1, r2 \in Requests : r1 # r2 => addr[r1] # addr[r2]
C6_ExactlyOnceRegistration ==
    (AllRegisteredNoneDeregistered /\ DistinctAddrs) =>
        /\ Cardinality({client_id[r] : r \in Requests}) = NumRequests
        /\ Cardinality(registry) = Cardinality(reg0) + NumRequests
C6_Witness ==
    /\ AllRegisteredNoneDeregistered /\ DistinctAddrs
    /\ \A r \in Requests : pc[r] = "handler"
    /\ reg0 # {}

\* C7 (quiescence under concurrency): once all requests have returned, the
\* registry holds none of their ids and each caller has the response of its
\* own request's handler.
AllReturned == \A r \in Requests : pc[r] = "returned"
C7_Quiescence ==
    AllReturned =>
        \A r \in Requests :
            /\ ~Present(r)
            /\ result[r].kind = "Ok"
            /\ result[r].response.request = r
C7_Witness ==
    /\ AllReturned
    /\ \E r1, r2 \in Requests :
          /\ result[r1].response.status = "success"
          /\ result[r2].response.status = "failure"

\* C8 (pass-through): what the wrapper returns is Ok of exactly the response
\* the handler chain produced, for success and failure responses alike.
C8_PassThrough ==
    \A r \in Requests :
        pc[r] = "returned" => result[r] = Ok(response[r])
C8_Witness ==
    \E r \in Requests :
        pc[r] = "returned" /\ result[r] = Ok([request |-> r, status |-> "failure"])

\* C10 (idempotent absence): a delete_client for a client_id that is not in
\* the registry leaves the registry as it was and lets the task finish, and
\* the wrapper that joins such a task still returns Ok of the handler's
\* response.
C10_IdempotentAbsence ==
    [][\A r \in Requests :
        /\ (task[r] = "spawned" /\ task'[r] = "done" /\ ~Present(r)) =>
              (registry' = registry /\ r \in anomaly_log')
        /\ (r \in anomaly_log /\ pc[r] = "joining" /\ pc'[r] = "returned") =>
              result'[r] = Ok(response[r])]_vars
C10_Witness ==
    \E r1, r2 \in Requests :
        /\ r1 \in anomaly_log
        /\ pc[r1] = "returned" /\ result[r1] = Ok(response[r1])
        /\ r2 # r1 /\ Present(r2) /\ pc[r2] = "handler"
        /\ reg0 \subseteq registry /\ reg0 # {}

\* C11 (shard affinity and request scope of mutation): every change of the
\* shard's registry is made from inside a request's scope, that is either by
\* the registration of a request that is just starting or by the
\* deregistration task of a request whose wrapper is still waiting for it;
\* never by work that runs after the wrapper is gone.  (Both calls of a
\* request go through the same state.shard.shard().)  The only step that
\* can break it is RunDeleteTask of a wrapper that was dropped at the join
\* while its task was left to run, which happens only on a runtime whose
\* join handle detaches the task when dropped.
InScopeRegistration(r) == pc[r] = "idle" /\ pc'[r] = "handler"
InScopeDeregistration(r) ==
    pc[r] = "joining" /\ task[r] = "spawned" /\ task'[r] = "done"
C11_RequestScopedMutation ==
    [][registry' # registry =>
          \E r \in Requests : InScopeRegistration(r) \/ InScopeDeregistration(r)]_vars

\* ------------------------------------------------ the direct-call wrapper
\* The wrapper the design note compares with: the same function with
\*     state.shard.shard().delete_client(client_id).await;
\* in place of lines 47-50.  delete_client is an async fn and its await is a
\* suspension point of the wrapper, so the call is pending ("spawned"), then
\* has mutated the registry ("done"), then the wrapper resumes and returns.
\* A wrapper dropped while it waits is seen from outside as a wrapper that
\* never resumes; D_pc and D_call are the spawning wrapper's state read as
\* the direct-call wrapper's.
D_pc == [r \in Requests |->
            IF pc[r] = "cancelled" /\ task[r] # "none" THEN "joining" ELSE pc[r]]
D_call == [r \in Requests |->
            IF task[r] = "cancelled" THEN "spawned" ELSE task[r]]
D_obs == <<D_pc, D_call, registry, result>>
D_OnlyOf(r) ==
    /\ \A q \in Requests \ {r} :
          D_pc'[q] = D_pc[q] /\ D_call'[q] = D_call[q] /\ result'[q] = result[q]
DirectRegister(r) ==
    /\ D_pc[r] = "idle" /\ D_pc'[r] = "handler"
    /\ \E s \in registry' :
          /\ s.client_id \notin Ids(registry)
          /\ s.client_id = client_id'[r]
          /\ registry' = registry \cup {s}
    /\ D_call'[r] = D_call[r] /\ result'[r] = result[r]
    /\ D_OnlyOf(r)
DirectCall(r) ==
    /\ D_pc[r] = "handler" /\ D_pc'[r] = "joining"
    /\ D_call[r] = "none" /\ D_call'[r] = "spawned"
    /\ response'[r].request = r
    /\ registry' = registry /\ result'[r] = result[r]
    /\ D_OnlyOf(r)
DirectDelete(r) ==
    /\ D_pc[r] = "joining" /\ D_pc'[r] = "joining"
    /\ D_call[r] = "spawned" /\ D_call'[r] = "done"
    /\ registry' = delete_client(registry, client_id[r])
    /\ result'[r] = result[r]
    /\ D_OnlyOf(r)
DirectReturn(r) ==
    /\ D_pc[r] = "joining" /\ D_pc'[r] = "returned"
    /\ D_call[r] = "done" /\ D_call'[r] = "done"
    /\ result'[r] = Ok(response[r])
    /\ registry' = registry
    /\ D_OnlyOf(r)
DirectCancel(r) ==
    /\ D_pc[r] = "handler" /\ D_pc'[r] = "cancelled"
    /\ D_call'[r] = D_call[r] /\ result'[r] = result[r]
    /\ registry' = registry
    /\ D_OnlyOf(r)
DirectNext ==
    \E r \in Requests :
        \/ DirectRegister(r)
        \/ DirectCall(r)
        \/ DirectDelete(r)
        \/ DirectReturn(r)
        \/ DirectCancel(r)

Session(r) == [client_id |-> client_id[r], address |-> addr[r], transport |-> Http]
WellFormed(s) ==
    /\ s.client_id # NoId
    /\ s.address \in Addrs
    /\ s.transport \in {Http, "Tcp"}

\* C13 (atomic registry mutations): in every state another task can see
\* (every state between two polls), each request's session is either
\* wholly in the registry, with its id, address and protocol, or there is no
\* entry with its id at all; and it is in exactly while the request has
\* registered and its deregistration has not run.
C13_AtomicMutations ==
    /\ \A s \in registry : WellFormed(s)
    /\ \A r \in Requests :
          /\ ~Registered(r) => pc[r] = "idle"
          /\ Holding(r) => Session(r) \in registry
          /\ Deregistered(r) => ~Present(r)
C13_Witness ==
    \E r1, r2 \in Requests :
        /\ pc[r1] = "joining" /\ task[r1] = "spawned" /\ Session(r1) \in registry
        /\ pc[r2] = "joining" /\ task[r2] = "done" /\ ~Present(r2)

Active == {r \in Requests : Holding(r)}
C15_OneEntryPerRegistration ==
    /\ registry = reg0 \cup {Session(r) : r \in Active}
    /\ Cardinality(registry) = Cardinality(reg0) + Cardinality(Active)
C15_Witness ==
    /\ reg0 = {}
    /\ \E r1, r2 \in Requests :
          /\ Holding(r1) /\ pc[r1] = "cancelled"
          /\ Deregistered(r2)
          /\ Cardinality(registry) = 1

\* C16 (exactly-once removal): the entry of a request is never removed
\* twice, and once the request is over, by return or by cancellation, it
\* has been removed exactly once.
Removals(r) ==
    Cardinality({i \in DOMAIN trace[r] : trace[r][i] = "deregistered"})
C16_ExactlyOnceRemoval ==
    \A r \in Requests :
        /\ Removals(r) <= 1
        /\ FullyCompleted(r) => (Removals(r) = 1 /\ ~Present(r))

\* C17 (own-id deregistration): an invocation registers once, its client_id
\* never changes afterwards, and the one step in which its task runs
\* delete_client removes exactly the session its own add_client created,
\* leaving every other session in place.
C17_OwnIdDeregistration ==
    [][\A r \in Requests :
        /\ Registered(r) => client_id'[r] = client_id[r]
        /\ (task[r] = "spawned" /\ task'[r] = "done") =>
              /\ Session(r) \in registry
              /\ registry' = registry \ {Session(r)}
        /\ task[r] \in {"done", "cancelled"} => task'[r] = task[r]]_vars
C17_Witness ==
    \E r1, r2 \in Requests :
        /\ task[r1] = "done" /\ ~Present(r1)
        /\ client_id[r1] < client_id[r2]
        /\ pc[r2] = "handler" /\ Session(r2) \in registry

\* C18 (deregistration failure is swallowed): whatever became of the
\* deregistration task, a wrapper that returns returns Ok of the handler's
\* response, and no wrapper ever returns an Err.
C18_FailureSwallowed ==
    \A r \in Requests :
        /\ result[r].kind # "Err"
        /\ (pc[r] = "returned" /\ (task[r] = "failed" \/ r \in anomaly_log)) =>
              (result[r].kind = "Ok" /\ result[r].response = response[r])
C18_Witness ==
    \E r \in Requests :
        /\ pc[r] = "returned" /\ task[r] = "failed" /\ Present(r)
        /\ result[r] = Ok([request |-> r, status |-> "success"])

====
